---- MODULE Spec2Model ----
(***************************************************************************)
(* Model of yandex-disk-photo-exporter: the traversal loop of run() (main   *)
(* package), the selection, navigation and download packages it drives,     *)
(* and the datefilter package that classifies group labels.                 *)
(*                                                                          *)
(* The page ("surface") is a column of date groups at fixed document        *)
(* offsets, a scroll offset clamped to the document, and a set of selected  *)
(* groups.  Every chromedp.Run is one step whose outcome is chosen by the   *)
(* environment: it succeeds, fails with an error that IsBrowserClosed       *)
(* rejects (transient), or fails with one that it accepts (fatal).          *)
(***************************************************************************)
EXTENDS Integers, Sequences, FiniteSets, TLC

(* ------------------------------ bounds --------------------------------- *)
MaxGroups == 3
MaxTransient == 1
MaxStreak == 3
MaxDates == 4
InnerHeight == 1000

(* ------------------------ program constants ---------------------------- *)
DefaultScrollAmount == 600
maxConsecutiveErrors == 3
MaxEmptyRounds == 5
MaxDeselectRetries == 3
BandTop == 80
BandBottomMargin == 50
ScrollMargin == 50
EpochYear == 1970

(* --------------------------- calendar (time) --------------------------- *)
IsLeap(y) == (y % 4 = 0 /\ y % 100 # 0) \/ y % 400 = 0

CumDays == <<0, 31, 59, 90, 120, 151, 181, 212, 243, 273, 304, 334>>

DaysBeforeMonth(y, m) == CumDays[m] + (IF IsLeap(y) /\ m > 2 THEN 1 ELSE 0)

DaysIn(y, m) ==
  IF m = 2 THEN (IF IsLeap(y) THEN 29 ELSE 28)
  ELSE IF m \in {4, 6, 9, 11} THEN 30 ELSE 31

DaysBeforeYear(y) == 365 * (y - 1) + ((y - 1) \div 4) - ((y - 1) \div 100) + ((y - 1) \div 400)

\* time.Date(y, m, d, 0,0,0,0, UTC): the day is added to the first of the
\* month, so a day past the month's end rolls into the following month.
\* An instant is counted in half days: midnight is even.
Date(y, m, d) == 2 * (DaysBeforeYear(y) + DaysBeforeMonth(y, m) + d - 1)

\* the zero time.Time: 1 January of year 1
ZeroTime == Date(1, 1, 1)

BeforeOrEqual(t, u) == t <= u

Before(t, u) == t < u

\* the comparison turned round
AfterReversed(t, u) == t < u

After(t, u) == t > u

(* ------------------------------ datefilter ----------------------------- *)
\* A -from/-to flag value: <<>> is the empty string, <<y, m, d>> is text of
\* the shape YYYY-MM-DD, <<0>> is any other text.
EmptyStr == <<>>
BadStr == <<0>>

\* time.Parse("2006-01-02", s)
TimeParse(s) ==
  IF Len(s) = 3 /\ s[2] \in 1..12 /\ s[3] \in 1..DaysIn(s[1], s[2])
  THEN [err |-> FALSE, t |-> Date(s[1], s[2], s[3])]
  ELSE [err |-> TRUE, t |-> ZeroTime]

\* NewDateRange without its early return for two empty flags: the zero range,
\* enabled
NewDateRangeAlwaysEnabled(from, to, now) ==
  LET pf == TimeParse(from)
      pt == TimeParse(to)
      From0 == IF from # EmptyStr THEN pf.t ELSE ZeroTime
      To0 == IF to # EmptyStr THEN pt.t ELSE ZeroTime
      To1 == IF from # EmptyStr /\ to = EmptyStr THEN now ELSE To0
      From1 == IF to # EmptyStr /\ from = EmptyStr THEN Date(EpochYear, 1, 1) ELSE From0
  IN  [err |-> (from # EmptyStr /\ pf.err) \/ (to # EmptyStr /\ pt.err) \/ After(From1, To1),
       From |-> From1, To |-> To1, Enabled |-> TRUE]

\* NewDateRange(from, to); now is time.Now()
NewDateRange(from, to, now) ==
  IF from = EmptyStr /\ to = EmptyStr
  THEN [err |-> FALSE, From |-> ZeroTime, To |-> ZeroTime, Enabled |-> FALSE]
  ELSE
    LET pf == TimeParse(from)
        pt == TimeParse(to)
        From0 == IF from # EmptyStr THEN pf.t ELSE ZeroTime
        To0 == IF to # EmptyStr THEN pt.t ELSE ZeroTime
        To1 == IF from # EmptyStr /\ to = EmptyStr THEN now ELSE To0
        From1 == IF to # EmptyStr /\ from = EmptyStr THEN Date(EpochYear, 1, 1) ELSE From0
    IN  IF from # EmptyStr /\ pf.err
        THEN [err |-> TRUE, From |-> ZeroTime, To |-> ZeroTime, Enabled |-> TRUE]
        ELSE IF to # EmptyStr /\ pt.err
        THEN [err |-> TRUE, From |-> ZeroTime, To |-> ZeroTime, Enabled |-> TRUE]
        ELSE IF After(From1, To1)
        THEN [err |-> TRUE, From |-> From1, To |-> To1, Enabled |-> TRUE]
        ELSE [err |-> FALSE, From |-> From1, To |-> To1, Enabled |-> TRUE]

\* A rendered label: day digits, a separator, a word, an optional year.
\*   month = 0   : the word is not an English month name
\*   year  = 0   : the label carries no year
\*   sep         : "sp" ASCII white space, "nbsp" a no-break space (U+00A0)
\* strings.TrimSpace has nothing to remove: the page trims the text already.

\* datePattern ^(\d{1,2})\s+([A-Za-z]+)(?:\s+(\d{4}))?$ : Go's \s is ASCII only
DatePatternMatches(label) == label.sep = "sp" /\ label.day \in 0..99

\* ParseYandexDate(dateText); nowYear is time.Now().Year()
ParseYandexDate(label, nowYear) ==
  IF ~DatePatternMatches(label) THEN [err |-> TRUE, t |-> ZeroTime]
  ELSE IF label.month \notin 1..12 THEN [err |-> TRUE, t |-> ZeroTime]
  ELSE [err |-> FALSE,
        t |-> Date(IF label.year # 0 THEN label.year ELSE nowYear, label.month, label.day)]

\* IsInRange without its check against To
IsInRangeNoUpperBound(dr, label, nowYear) ==
  IF ~dr.Enabled THEN [err |-> FALSE, in |-> TRUE]
  ELSE LET p == ParseYandexDate(label, nowYear)
       IN  IF p.err THEN [err |-> TRUE, in |-> FALSE]
           ELSE IF Before(p.t, dr.From) THEN [err |-> FALSE, in |-> FALSE]
           ELSE [err |-> FALSE, in |-> TRUE]

\* (dr *DateRange) IsInRange(dateText) -> (bool, error)
IsInRange(dr, label, nowYear) ==
  IF ~dr.Enabled THEN [err |-> FALSE, in |-> TRUE]
  ELSE LET p == ParseYandexDate(label, nowYear)
       IN  IF p.err THEN [err |-> TRUE, in |-> FALSE]
           ELSE IF Before(p.t, dr.From) THEN [err |-> FALSE, in |-> FALSE]
           ELSE IF After(p.t, dr.To) THEN [err |-> FALSE, in |-> FALSE]
           ELSE [err |-> FALSE, in |-> TRUE]

\* (dr *DateRange) IsBeforeRange(dateText) -> bool
IsBeforeRange(dr, label, nowYear) ==
  IF ~dr.Enabled THEN FALSE
  ELSE LET p == ParseYandexDate(label, nowYear)
       IN  IF p.err THEN FALSE ELSE Before(p.t, dr.From)

\* (dr *DateRange) IsAfterRange(dateText) -> bool
IsAfterRange(dr, label, nowYear) ==
  IF ~dr.Enabled THEN FALSE
  ELSE LET p == ParseYandexDate(label, nowYear)
       IN  IF p.err THEN FALSE ELSE After(p.t, dr.To)


(* ------------------------------- browser ------------------------------- *)
\* The error of a surface call is "nil", "transient" or "fatal"; fatal stands
\* for the errors whose message IsBrowserClosed recognises.
IsBrowserClosed(err) == err = "fatal"

\* An error value in full: nil, or a message.  A message is a sequence of
\* pieces of text, each written in lower case or in capitals (up); substring
\* search is carried out piece by piece.
Piece(t, up) == [t |-> t, up |-> up]
Lower(ts) == [i \in 1..Len(ts) |-> Piece(ts[i], FALSE)]
NilError == [isNil |-> TRUE, msg |-> <<>>]
ErrorOf(m) == [isNil |-> FALSE, msg |-> m]

\* context.Canceled.Error() and context.DeadlineExceeded.Error()
ContextCanceled == ErrorOf(Lower(<<"context ", "canceled">>))
ContextDeadlineExceeded == ErrorOf(Lower(<<"context ", "deadline exceeded">>))

closedPatterns ==
  { Lower(<<"context ", "canceled">>),
    Lower(<<"context ", "deadline exceeded">>),
    Lower(<<"websocket: ", "close">>),
    Lower(<<"target ", "close", "d">>),
    Lower(<<"browser: ", "not connected">>),
    Lower(<<"session ", "close", "d">>),
    Lower(<<"page ", "close", "d">>),
    Lower(<<"connection ", "refused">>),
    Lower(<<"broken ", "pipe">>) }

\* strings.ToLower
ToLower(m) == [i \in 1..Len(m) |-> Piece(m[i].t, FALSE)]

\* strings.Contains
Contains(m, pattern) ==
  \E i \in 0..(Len(m) - Len(pattern)) : SubSeq(m, i + 1, i + Len(pattern)) = pattern

\* IsBrowserClosed comparing the message as it is written
IsBrowserClosedCaseSensitive(e) ==
  IF e.isNil THEN FALSE
  ELSE IF e = ContextCanceled \/ e = ContextDeadlineExceeded THEN TRUE
  ELSE \E pattern \in closedPatterns : Contains(e.msg, pattern)

\* IsBrowserClosed(err) on the error value in full; the class "fatal" of a
\* surface call's outcome stands for the errors it accepts
IsBrowserClosedError(e) ==
  IF e.isNil THEN FALSE
  ELSE IF e = ContextCanceled \/ e = ContextDeadlineExceeded THEN TRUE
  ELSE \E pattern \in closedPatterns : Contains(ToLower(e.msg), pattern)

(* --------------------------- browser detection ------------------------- *)
\* A candidate: the path the list holds and the browser it belongs to.
\* On Windows the paths start at %ProgramFiles% (PF), %ProgramFiles(x86)%
\* (PF86) and %LOCALAPPDATA% (LAD); on macOS ~ is $HOME.
Cand(b, path) == [browser |-> b, path |-> path]

getWindowsCandidates ==
  << Cand("Chrome", "PF/Google/Chrome/Application/chrome.exe"),
     Cand("Chrome", "PF86/Google/Chrome/Application/chrome.exe"),
     Cand("Chrome", "LAD/Google/Chrome/Application/chrome.exe"),
     Cand("Chromium", "PF/Chromium/Application/chrome.exe"),
     Cand("Chromium", "PF86/Chromium/Application/chrome.exe"),
     Cand("Chromium", "LAD/Chromium/Application/chrome.exe"),
     Cand("Edge", "PF/Microsoft/Edge/Application/msedge.exe"),
     Cand("Edge", "PF86/Microsoft/Edge/Application/msedge.exe"),
     Cand("Vivaldi", "LAD/Vivaldi/Application/vivaldi.exe"),
     Cand("Vivaldi", "PF/Vivaldi/Application/vivaldi.exe"),
     Cand("Opera", "LAD/Programs/Opera/opera.exe"),
     Cand("Opera", "PF/Opera/opera.exe"),
     Cand("Brave", "PF/BraveSoftware/Brave-Browser/Application/brave.exe"),
     Cand("Brave", "LAD/BraveSoftware/Brave-Browser/Application/brave.exe") >>

getMacOSCandidates ==
  << Cand("Chrome", "/Applications/Google Chrome.app/Contents/MacOS/Google Chrome"),
     Cand("Chrome", "~/Applications/Google Chrome.app/Contents/MacOS/Google Chrome"),
     Cand("Chromium", "/Applications/Chromium.app/Contents/MacOS/Chromium"),
     Cand("Chromium", "~/Applications/Chromium.app/Contents/MacOS/Chromium"),
     Cand("Edge", "/Applications/Microsoft Edge.app/Contents/MacOS/Microsoft Edge"),
     Cand("Vivaldi", "/Applications/Vivaldi.app/Contents/MacOS/Vivaldi"),
     Cand("Opera", "/Applications/Opera.app/Contents/MacOS/Opera"),
     Cand("Brave", "/Applications/Brave Browser.app/Contents/MacOS/Brave Browser") >>

getLinuxCandidates ==
  << Cand("Chrome", "/usr/bin/google-chrome"),
     Cand("Chrome", "/usr/bin/google-chrome-stable"),
     Cand("Chrome", "/var/lib/flatpak/exports/bin/com.google.Chrome"),
     Cand("Chromium", "/usr/bin/chromium"),
     Cand("Chromium", "/usr/bin/chromium-browser"),
     Cand("Chromium", "/snap/bin/chromium"),
     Cand("Chromium", "/var/lib/flatpak/exports/bin/org.chromium.Chromium"),
     Cand("Edge", "/usr/bin/microsoft-edge-stable"),
     Cand("Edge", "/usr/bin/microsoft-edge"),
     Cand("Vivaldi", "/usr/bin/vivaldi"),
     Cand("Vivaldi", "/usr/bin/vivaldi-stable"),
     Cand("Opera", "/usr/bin/opera"),
     Cand("Brave", "/usr/bin/brave-browser"),
     Cand("Brave", "/opt/brave.com/brave/brave-browser") >>

\* switch runtime.GOOS
CandidatesOf(goos) ==
  CASE goos = "windows" -> getWindowsCandidates
    [] goos = "darwin" -> getMacOSCandidates
    [] OTHER -> getLinuxCandidates

\* the names tried with exec.LookPath
LookPathNames == <<"chrome", "chromium", "chromium-browser", "google-chrome">>

NotDetected == [from |-> "none", path |-> ""]

\* DetectBrowser returning the last existing candidate
DetectBrowserLast(h) ==
  LET c == CandidatesOf(h.goos)
      hits == {i \in 1..Len(c) : c[i].path # "" /\ c[i].path \in h.files}
      found == {i \in 1..Len(LookPathNames) : LookPathNames[i] \in h.onPath}
  IN  IF hits # {}
      THEN [from |-> "candidates", path |-> c[CHOOSE i \in hits : \A j \in hits : j <= i].path]
      ELSE IF found # {}
      THEN [from |-> "PATH", path |-> LookPathNames[CHOOSE i \in found : \A j \in found : i <= j]]
      ELSE NotDetected

\* DetectBrowser() on the host h: [goos, files (the paths os.Stat finds),
\* onPath (the names exec.LookPath finds)].  No candidate path holds a $, so
\* os.ExpandEnv leaves it as it is.
DetectBrowser(h) ==
  LET c == CandidatesOf(h.goos)
      hits == {i \in 1..Len(c) : c[i].path # "" /\ c[i].path \in h.files}
      found == {i \in 1..Len(LookPathNames) : LookPathNames[i] \in h.onPath}
  IN  IF hits # {}
      THEN [from |-> "candidates", path |-> c[CHOOSE i \in hits : \A j \in hits : i <= j].path]
      ELSE IF found # {}
      THEN [from |-> "PATH", path |-> LookPathNames[CHOOSE i \in found : \A j \in found : i <= j]]
      ELSE NotDetected

(* ------------------------------ navigation ----------------------------- *)
\* window.scrollBy(0, DefaultScrollAmount)
ScrollDownDelta == DefaultScrollAmount

\* the operands of the subtraction exchanged
ScrollToPositionDeltaReversed(yPosition) == ScrollMargin - yPosition

\* window.scrollBy(0, yPosition - 50)
ScrollToPositionDelta(yPosition) == yPosition - ScrollMargin

Max(a, b) == IF a > b THEN a ELSE b
Min(a, b) == IF a < b THEN a ELSE b

\* window.scrollBy: the browser keeps the offset inside the document
ScrollBy(offset, delta, height) == Max(0, Min(offset + delta, Max(0, height - InnerHeight)))

(* ------------------------------ selection ------------------------------ *)
\* /^\d{1,2}\s+(January|...|December)$/i : no year; JavaScript's \s accepts
\* the no-break space
LocatorMatches(label) ==
  label.day \in 0..99 /\ label.month \in 1..12 /\ label.year = 0

\* rect.top of a group in the viewport
RectTop(g, offset) == g.top - offset

\* rect.top >= 80 && rect.top < window.innerHeight - 50 (rect.width > 0 holds
\* for every rendered label)
InBand(g, offset) ==
  RectTop(g, offset) >= BandTop /\ RectTop(g, offset) < InnerHeight - BandBottomMargin

\* y: rect.top + rect.height / 2
CenterY(g, offset) == RectTop(g, offset) + g.h \div 2

Candidates(gs, offset) ==
  {i \in 1..Len(gs) : LocatorMatches(gs[i].label) /\ InBand(gs[i], offset)}

\* the sort with the comparator's operands exchanged: the lowest date first
FirstVisibleDescending(gs, offset) ==
  LET c == Candidates(gs, offset)
  IN  IF c = {} THEN 0
      ELSE CHOOSE i \in c : \A j \in c :
             \/ CenterY(gs[i], offset) > CenterY(gs[j], offset)
             \/ CenterY(gs[i], offset) = CenterY(gs[j], offset) /\ i <= j

\* dates.sort((a, b) => a.y - b.y); dates[0]  (the sort is stable)
FirstVisible(gs, offset) ==
  LET c == Candidates(gs, offset)
  IN  IF c = {} THEN 0
      ELSE CHOOSE i \in c : \A j \in c :
             \/ CenterY(gs[i], offset) < CenterY(gs[j], offset)
             \/ CenterY(gs[i], offset) = CenterY(gs[j], offset) /\ i <= j

(* -------------------------------- state -------------------------------- *)
VARIABLES
  cfgFrom, cfgTo,      \* the -from and -to flags
  today,               \* <<y, m, d>> of time.Now()
  dateRange,           \* what NewDateRange returned
  groups,              \* the page: sequence of [label, top, h]
  docHeight,           \* height of the document
  scrollY,             \* window.scrollY
  selected,            \* groups whose checkbox is checked
  downloaded,          \* groups the page has started a download for
  session,             \* "none" (not opened yet), "alive" or "closed"
  ctxDone,             \* ctx.Done() is closed
  transientLeft,       \* transient failures the environment may still inject
  pc,                  \* position of run()
  ret,                 \* caller of the Deselect in progress
  dErr,                \* error the last Deselect returned
  cand,                \* SelectFirstVisibleDate: the located group [idx, y]
  dateInfo,            \* run: dateInfo of the iteration [idx, Text, YPosition]
  emptyRounds,
  consecutiveErrors,
  retry,
  stats,               \* report.Stats
  logged,              \* range messages logged in this iteration
  term,                \* why the loop was left
  fatalAt,             \* position of the first surface call that returned a fatal error
  downloadSteps,       \* per group: times the download step was reached (capped)
  reports,             \* times stats.Print ran
  closes,              \* times browserCtx.Close ran
  runErr,              \* the error run returns: "none", "navigate" or "login_timeout"
  probe, answer,       \* Range Filter queries made outside run
  fault, verdict,      \* an error value and what IsBrowserClosed said of it
  host, detected       \* a machine and what DetectBrowser found on it

cfgVars == <<cfgFrom, cfgTo, today, dateRange, groups, docHeight>>
surfVars == <<scrollY, selected, downloaded>>
callVars == <<session, ctxDone, transientLeft, fatalAt>>
engVars == <<pc, ret, dErr, cand, dateInfo, emptyRounds, consecutiveErrors, retry, stats, logged, term>>
obsVars == <<downloadSteps, reports, closes, runErr>>
askVars == <<probe, answer, fault, verdict, host, detected>>
vars == <<cfgVars, surfVars, callVars, engVars, obsVars, askVars>>

NoLabel == [day |-> 0, month |-> 0, year |-> 0, sep |-> "sp"]
NoDate == [idx |-> 0, Text |-> NoLabel, YPosition |-> 0]
NoCand == [idx |-> 0, y |-> 0]
NoVerdict == [asked |-> FALSE, closed |-> FALSE]
NoParse == [asked |-> FALSE, err |-> FALSE, t |-> ZeroTime]
NoAnswer == [asked |-> {}, err |-> FALSE, in |-> FALSE, before |-> FALSE, after |-> FALSE,
             parse |-> NoParse]

nowYear == today[1]
\* time.Now(): some instant in the course of today
Now == Date(today[1], today[2], today[3]) + 1


(* ------------------------- the environment's choices ------------------- *)
\* a SelectFirstVisibleDate that failed in the last iteration may fail again,
\* up to MaxStreak times in a row
StreakGoesOn ==
  pc \in {"locate", "hover", "click_checkbox"} /\ consecutiveErrors \in 1..(MaxStreak - 1)

\* outcomes a surface call can have now
Results ==
  IF session = "closed" THEN {"fatal"}
  ELSE {"nil", "fatal"} \cup
       (IF transientLeft > 0 \/ StreakGoesOn THEN {"transient"} ELSE {})

\* chromedp.Run(ctx, ...) for the call op returning err.  When the session ends, ctx may or may
\* not be cancelled with it (cd).
Call(op, err, cd) ==
  /\ err \in Results
  /\ cd \in (IF err = "fatal" THEN {ctxDone, TRUE} ELSE {ctxDone})
  /\ ctxDone' = cd
  /\ session' = IF err = "fatal" THEN "closed" ELSE session
  /\ transientLeft' = IF err = "transient" THEN transientLeft - 1 ELSE transientLeft
  /\ fatalAt' = IF fatalAt = "none" /\ err = "fatal" THEN pc ELSE fatalAt

\* ctx's two-hour timeout fires, or the user closes the browser, between two
\* calls.  Before a surface call this is the same as that call failing with
\* ctx.Err(), so it is taken only where run reads ctx.Done() next.
ContextTimeout ==
  /\ pc \in {"loop_top", "double_check", "ctx_check"}
  /\ session = "alive"
  /\ session' = "closed"
  /\ ctxDone' = TRUE
  /\ UNCHANGED <<transientLeft, fatalAt>>
  /\ UNCHANGED <<cfgVars, surfVars, engVars, obsVars, askVars>>

\* the default case of the select taken whatever ctx.Done() holds
IsContextCanceledNever(done) == FALSE

\* browser.IsContextCanceled(ctx)
IsContextCanceled(done) == done

(* -------------------------------- report ------------------------------- *)
NewStats == [DatesProcessed |-> 0, DownloadsStarted |-> 0, DownloadsFailed |-> 0,
             SkippedDates |-> 0, Errors |-> <<>>]

\* the counter left as it is
IncrementDatesProcessedNot(s) == s

IncrementDatesProcessed(s) == [s EXCEPT !.DatesProcessed = @ + 1]
IncrementDownloadsStarted(s) == [s EXCEPT !.DownloadsStarted = @ + 1]
\* the counter left as it is
IncrementDownloadsFailedNot(s) == s

IncrementDownloadsFailed(s) == [s EXCEPT !.DownloadsFailed = @ + 1]
IncrementSkippedDates(s) == [s EXCEPT !.SkippedDates = @ + 1]
AddError(s, dateText) == [s EXCEPT !.Errors = Append(@, dateText)]

(* ------------------------------ run: startup --------------------------- *)
\* main calling run although NewDateRange returned an error
MainIgnoringError ==
  /\ pc = "main"
  /\ pc' = "start"
  /\ UNCHANGED <<ret, dErr, cand, dateInfo, emptyRounds, consecutiveErrors, retry, stats, logged, term>>
  /\ UNCHANGED <<cfgVars, surfVars, callVars, obsVars, askVars>>

\* main, lines 76-94: on NewDateRange's error log.Fatalf ends the program;
\* otherwise main logs the settings and calls run
Main ==
  /\ pc = "main"
  /\ pc' = IF dateRange.err THEN "config_error" ELSE "start"
  /\ UNCHANGED <<ret, dErr, cand, dateInfo, emptyRounds, consecutiveErrors, retry, stats, logged, term>>
  /\ UNCHANGED <<cfgVars, surfVars, callVars, obsVars, askVars>>

\* stats := report.New(); defer stats.Print(); browser.New(cfg), which opens
\* the session and never fails; defer browserCtx.Close()
RunStart ==
  /\ pc = "start"
  /\ pc' = "navigate"
  /\ stats' = NewStats
  /\ session' = "alive"
  /\ UNCHANGED <<ctxDone, transientLeft, fatalAt>>
  /\ UNCHANGED <<ret, dErr, cand, dateInfo, emptyRounds, consecutiveErrors, retry, logged, term>>
  /\ UNCHANGED <<cfgVars, surfVars, obsVars, askVars>>

\* browser.Navigate(ctx, yandexPhotosURL): an error is returned from run
Navigate ==
  /\ pc = "navigate"
  /\ \E err \in Results, cd \in BOOLEAN :
       /\ Call("Navigate", err, cd)
       /\ pc' = IF err = "nil" THEN "configure" ELSE "returning"
       /\ runErr' = IF err = "nil" THEN runErr ELSE "navigate"
  /\ UNCHANGED <<ret, dErr, cand, dateInfo, emptyRounds, consecutiveErrors, retry, stats, logged, term>>
  /\ UNCHANGED <<downloadSteps, reports, closes>>
  /\ UNCHANGED <<cfgVars, surfVars, askVars>>

\* a ConfigureDownloads whose error is returned from run, as Navigate's is
ConfigureDownloadsOrReturn ==
  /\ pc = "configure"
  /\ \E err \in Results, cd \in BOOLEAN :
       /\ Call("ConfigureDownloads", err, cd)
       /\ pc' = IF err = "nil" THEN "check_login" ELSE "returning"
  /\ UNCHANGED <<ret, dErr, cand, dateInfo, emptyRounds, consecutiveErrors, retry, stats, logged, term>>
  /\ UNCHANGED <<cfgVars, surfVars, obsVars, askVars>>

\* browser.ConfigureDownloads: an error is only logged
ConfigureDownloads ==
  /\ pc = "configure"
  /\ \E err \in Results, cd \in BOOLEAN : Call("ConfigureDownloads", err, cd)
  /\ pc' = "check_login"
  /\ UNCHANGED <<ret, dErr, cand, dateInfo, emptyRounds, consecutiveErrors, retry, stats, logged, term>>
  /\ UNCHANGED <<cfgVars, surfVars, obsVars, askVars>>

\* auth.CheckLoginStatus, then (signed out) auth.WaitForLogin and a second
\* Navigate whose error is only logged.  in: the page shows a signed-in user.
CheckLoginStatus ==
  /\ pc = "check_login"
  /\ \E err \in Results, cd \in BOOLEAN, in \in BOOLEAN :
       /\ Call("CheckLoginStatus", err, cd)
       /\ pc' = IF err = "nil" /\ in THEN "filter" ELSE "wait_login"
  /\ UNCHANGED <<ret, dErr, cand, dateInfo, emptyRounds, consecutiveErrors, retry, stats, logged, term>>
  /\ UNCHANGED <<cfgVars, surfVars, obsVars, askVars>>

\* a poll whose failed check ends the wait with that error
WaitForLoginPollOrReturn ==
  /\ pc = "wait_login"
  /\ \E err \in Results, cd \in BOOLEAN, in \in BOOLEAN :
       /\ Call("CheckLoginStatus", err, cd)
       /\ pc' = IF err # "nil" THEN "returning"
                ELSE IF in THEN "navigate_again" ELSE "wait_login"
  /\ UNCHANGED <<ret, dErr, cand, dateInfo, emptyRounds, consecutiveErrors, retry, stats, logged, term>>
  /\ UNCHANGED <<cfgVars, surfVars, obsVars, askVars>>

\* one round of WaitForLogin's select: the ticker fires and the check runs
WaitForLoginPoll ==
  /\ pc = "wait_login"
  /\ \E err \in Results, cd \in BOOLEAN, in \in BOOLEAN :
       /\ Call("CheckLoginStatus", err, cd)
       /\ pc' = IF err = "nil" /\ in THEN "navigate_again" ELSE "wait_login"
  /\ UNCHANGED <<ret, dErr, cand, dateInfo, emptyRounds, consecutiveErrors, retry, stats, logged, term>>
  /\ UNCHANGED <<cfgVars, surfVars, obsVars, askVars>>

\* WaitForLogin returning nil when loginTimeout fires
WaitForLoginTimeoutIgnored ==
  /\ pc = "wait_login"
  /\ pc' = "navigate_again"
  /\ runErr' = "login_timeout"
  /\ UNCHANGED <<ret, dErr, cand, dateInfo, emptyRounds, consecutiveErrors, retry, stats, logged, term>>
  /\ UNCHANGED <<downloadSteps, reports, closes>>
  /\ UNCHANGED <<cfgVars, surfVars, callVars, askVars>>

\* one round of WaitForLogin's select: loginTimeout fires; WaitForLogin
\* returns the "login timeout" error and run returns it
WaitForLoginTimeout ==
  /\ pc = "wait_login"
  /\ pc' = "returning"
  /\ runErr' = "login_timeout"
  /\ UNCHANGED <<ret, dErr, cand, dateInfo, emptyRounds, consecutiveErrors, retry, stats, logged, term>>
  /\ UNCHANGED <<downloadSteps, reports, closes>>
  /\ UNCHANGED <<cfgVars, surfVars, callVars, askVars>>

NavigateAfterLogin ==
  /\ pc = "navigate_again"
  /\ \E err \in Results, cd \in BOOLEAN : Call("Navigate", err, cd)
  /\ pc' = "filter"
  /\ UNCHANGED <<ret, dErr, cand, dateInfo, emptyRounds, consecutiveErrors, retry, stats, logged, term>>
  /\ UNCHANGED <<cfgVars, surfVars, obsVars, askVars>>

\* navigation.FilterByUnlimitedStorage: an error is only logged
FilterByUnlimitedStorage ==
  /\ pc = "filter"
  /\ \E err \in Results, cd \in BOOLEAN : Call("FilterByUnlimitedStorage", err, cd)
  /\ pc' = "loop_top"
  /\ emptyRounds' = 0
  /\ consecutiveErrors' = 0
  /\ UNCHANGED <<ret, dErr, cand, dateInfo, retry, stats, logged, term>>
  /\ UNCHANGED <<cfgVars, surfVars, obsVars, askVars>>

\* run returns an error: the deferred browserCtx.Close() and stats.Print() run
RunReturn ==
  /\ pc = "returning"
  /\ pc' = "exited"
  /\ closes' = closes + 1
  /\ reports' = reports + 1
  /\ session' = "closed"
  /\ ctxDone' = TRUE
  /\ UNCHANGED <<transientLeft, fatalAt, downloadSteps, runErr>>
  /\ UNCHANGED <<ret, dErr, cand, dateInfo, emptyRounds, consecutiveErrors, retry, stats, logged, term>>
  /\ UNCHANGED <<cfgVars, surfVars, askVars>>


(* --------------------------- run: the main loop ------------------------ *)
\* > in place of >=
EndOfPhotosStrict(rounds) == rounds > MaxEmptyRounds

\* emptyRounds >= 5
EndOfPhotos(rounds) == rounds >= MaxEmptyRounds

\* the bound compared with > in place of >=
TooManyErrorsLate(n) == n > maxConsecutiveErrors

\* consecutiveErrors >= maxConsecutiveErrors
TooManyErrors(n) == n >= maxConsecutiveErrors

\* the retry loop with "retry <= 3" for its condition
RetryAgainInclusive(r) == r <= MaxDeselectRetries

\* for retry := 0; retry < 3; retry++
RetryAgain(r) == r < MaxDeselectRetries

\* top of the for loop: the context check.  dateInfo, err and retry are
\* declared inside the loop body and start afresh.  (The guard on the
\* counters bounds the runs explored.)
LoopTop ==
  /\ pc = "loop_top"
  /\ stats.DatesProcessed + stats.SkippedDates < MaxDates
  /\ IF IsContextCanceled(ctxDone)
     THEN pc' = "after_loop" /\ term' = "FATAL_ABORT"
     ELSE pc' = "pre_has_sel" /\ term' = term
  /\ logged' = {}
  /\ ret' = "pre" /\ dErr' = "nil" /\ cand' = NoCand /\ dateInfo' = NoDate /\ retry' = 0
  /\ UNCHANGED <<emptyRounds, consecutiveErrors, stats>>
  /\ UNCHANGED <<cfgVars, surfVars, callVars, obsVars, askVars>>

\* the pre-check that only looks: whatever HasActiveSelection reports, run
\* goes on to SelectFirstVisibleDate
ClearPendingSelectionLooksOnly ==
  /\ pc = "pre_has_sel"
  /\ \E err \in Results, cd \in BOOLEAN : Call("HasActiveSelection", err, cd)
  /\ pc' = "locate"
  /\ UNCHANGED <<ret, dErr, cand, dateInfo, emptyRounds, consecutiveErrors, retry, stats, logged, term>>
  /\ UNCHANGED <<cfgVars, surfVars, obsVars, askVars>>

\* selection.ClearPendingSelection: HasActiveSelection, whose error reads as
\* "no selection"
ClearPendingSelection ==
  /\ pc = "pre_has_sel"
  /\ \E err \in Results, cd \in BOOLEAN :
       /\ Call("HasActiveSelection", err, cd)
       /\ IF err = "nil" /\ selected # {}
          THEN pc' = "ds_find" /\ ret' = "pre"
          ELSE pc' = "locate" /\ ret' = ret
  /\ UNCHANGED <<dErr, cand, dateInfo, emptyRounds, consecutiveErrors, retry, stats, logged, term>>
  /\ UNCHANGED <<cfgVars, surfVars, obsVars, askVars>>

\* run, lines 175-193: SelectFirstVisibleDate returned an error
SelectFailed(err) ==
  IF IsBrowserClosed(err)
  THEN /\ pc' = "after_loop" /\ term' = "FATAL_ABORT"
       /\ consecutiveErrors' = consecutiveErrors
  ELSE /\ consecutiveErrors' = consecutiveErrors + 1
       /\ term' = term
       /\ pc' = IF TooManyErrors(consecutiveErrors + 1) THEN "double_check" ELSE "loop_top"

\* run, lines 183-192: after too many consecutive errors the context is
\* double-checked; the loop is left if it is done and goes on otherwise
DoubleCheckContext ==
  /\ pc = "double_check"
  /\ IF IsContextCanceled(ctxDone)
     THEN pc' = "after_loop" /\ term' = "FATAL_ABORT"
     ELSE pc' = "loop_top" /\ term' = term
  /\ UNCHANGED <<ret, dErr, cand, dateInfo, emptyRounds, consecutiveErrors, retry, stats, logged>>
  /\ UNCHANGED <<cfgVars, surfVars, callVars, obsVars, askVars>>

\* run, lines 196-213 up to the scroll: SelectFirstVisibleDate returned nil, nil
SelectedNone ==
  /\ consecutiveErrors' = 0
  /\ pc' = "scroll_down"
  /\ UNCHANGED <<ret, dateInfo, emptyRounds, stats, logged, term>>

\* the range check with "if !inRange" in place of "else if !inRange": a label
\* that fails to parse falls into the out-of-range branch
RangeVerdictNoElse(dr, text, year) ==
  IF ~dr.Enabled THEN [go |-> "download", log |-> {}]
  ELSE LET r == IsInRange(dr, text, year)
       IN  IF ~r.in
           THEN IF IsBeforeRange(dr, text, year)
                THEN [go |-> "stop", log |-> {"before"}]
                ELSE [go |-> "skip",
                      log |-> IF r.err THEN {"parse_failure", "after"} ELSE {"after"}]
           ELSE [go |-> "download", log |-> {"within"}]

\* run, lines 219-245: what the range check decides for a found date and
\* which range messages it logs
RangeVerdict(dr, text, year) ==
  IF ~dr.Enabled THEN [go |-> "download", log |-> {}]
  ELSE LET r == IsInRange(dr, text, year)
       IN  IF r.err THEN [go |-> "download", log |-> {"parse_failure", "within"}]
           ELSE IF ~r.in
           THEN IF IsBeforeRange(dr, text, year)
                THEN [go |-> "stop", log |-> {"before"}]
                ELSE [go |-> "skip", log |-> {"after"}]
           ELSE [go |-> "download", log |-> {"within"}]

\* run, lines 194 and 215-247: SelectFirstVisibleDate returned the group
\* cand; a date to stop at or to skip is deselected first, and the skipped
\* one is counted
SelectedDate ==
  LET text == groups[cand.idx].label
      v == RangeVerdict(dateRange, text, nowYear)
  IN  /\ consecutiveErrors' = 0
      /\ emptyRounds' = 0
      /\ dateInfo' = [idx |-> cand.idx, Text |-> text, YPosition |-> cand.y]
      /\ term' = term
      /\ logged' = v.log
      /\ pc' = IF v.go = "download" THEN "download" ELSE "ds_find"
      /\ ret' = IF v.go = "download" THEN ret ELSE v.go
      /\ stats' = IF v.go = "skip" THEN IncrementSkippedDates(stats) ELSE stats

\* SelectFirstVisibleDate: the Evaluate that collects the visible dates
Locate ==
  /\ pc = "locate"
  /\ \E err \in Results, cd \in BOOLEAN :
       /\ Call("SelectFirstVisibleDate.locate", err, cd)
       /\ IF err # "nil"
          THEN /\ SelectFailed(err)
               /\ UNCHANGED <<ret, cand, dateInfo, emptyRounds, stats, logged>>
          ELSE IF FirstVisible(groups, scrollY) = 0
          THEN SelectedNone /\ cand' = cand
          ELSE /\ cand' = [idx |-> FirstVisible(groups, scrollY),
                           y |-> CenterY(groups[FirstVisible(groups, scrollY)], scrollY)]
               /\ pc' = "hover"
               /\ UNCHANGED <<ret, dateInfo, emptyRounds, consecutiveErrors, stats, logged, term>>
  /\ UNCHANGED <<dErr, retry>>
  /\ UNCHANGED <<cfgVars, surfVars, obsVars, askVars>>

\* a hover that brings the date to the top of the viewport first
HoverScrollingIntoView ==
  /\ pc = "hover"
  /\ \E err \in Results, cd \in BOOLEAN :
       /\ Call("SelectFirstVisibleDate.hover", err, cd)
       /\ scrollY' = IF err = "nil" THEN ScrollBy(scrollY, cand.y, docHeight) ELSE scrollY
       /\ IF err # "nil"
          THEN SelectFailed(err)
          ELSE pc' = "click_checkbox" /\ UNCHANGED <<consecutiveErrors, term>>
  /\ UNCHANGED <<ret, dErr, cand, dateInfo, emptyRounds, retry, stats, logged>>
  /\ UNCHANGED <<selected, downloaded>>
  /\ UNCHANGED <<cfgVars, obsVars, askVars>>

\* SelectFirstVisibleDate: MouseClickXY(hoverX, y, ButtonNone)
Hover ==
  /\ pc = "hover"
  /\ \E err \in Results, cd \in BOOLEAN :
       /\ Call("SelectFirstVisibleDate.hover", err, cd)
       /\ IF err # "nil"
          THEN SelectFailed(err)
          ELSE pc' = "click_checkbox" /\ UNCHANGED <<consecutiveErrors, term>>
  /\ UNCHANGED <<ret, dErr, cand, dateInfo, emptyRounds, retry, stats, logged>>
  /\ UNCHANGED <<cfgVars, surfVars, obsVars, askVars>>

\* SelectFirstVisibleDate: the Evaluate that clicks a checkbox.  An unchecked
\* checkbox near y is clicked; failing that, a checkbox element under the
\* point is clicked whatever its state (hit).
ClickCheckbox ==
  /\ pc = "click_checkbox"
  /\ \E err \in Results, cd \in BOOLEAN, hit \in BOOLEAN :
       /\ Call("SelectFirstVisibleDate.checkbox", err, cd)
       /\ IF err # "nil"
          THEN /\ SelectFailed(err)
               /\ UNCHANGED <<selected, ret, dateInfo, emptyRounds, stats, logged>>
          ELSE IF hit
          THEN /\ selected' = IF cand.idx \in selected THEN selected \ {cand.idx}
                              ELSE selected \cup {cand.idx}
               /\ SelectedDate
          ELSE /\ pc' = "direct_click"
               /\ UNCHANGED <<selected, ret, dateInfo, emptyRounds, consecutiveErrors, stats, logged, term>>
  /\ UNCHANGED <<dErr, cand, retry>>
  /\ UNCHANGED <<scrollY, downloaded>>
  /\ UNCHANGED <<cfgVars, obsVars, askVars>>

\* SelectFirstVisibleDate: the fallback MouseClickXY(hoverX, y, ButtonLeft);
\* any error ends in "return nil, nil".  The click may or may not toggle the
\* group's selection (hit).
DirectClick ==
  /\ pc = "direct_click"
  /\ \E err \in Results, cd \in BOOLEAN, hit \in BOOLEAN :
       /\ Call("SelectFirstVisibleDate.click", err, cd)
       /\ IF err # "nil"
          THEN SelectedNone /\ selected' = selected
          ELSE /\ selected' = IF hit THEN selected \cup {cand.idx} ELSE selected
               /\ SelectedDate
  /\ UNCHANGED <<dErr, cand, retry>>
  /\ UNCHANGED <<scrollY, downloaded>>
  /\ UNCHANGED <<cfgVars, obsVars, askVars>>

\* navigation.ScrollDown in an empty round, then the emptyRounds count
ScrollDown ==
  /\ pc = "scroll_down"
  /\ \E err \in Results, cd \in BOOLEAN :
       /\ Call("ScrollDown", err, cd)
       /\ scrollY' = IF err = "nil" THEN ScrollBy(scrollY, ScrollDownDelta, docHeight) ELSE scrollY
       /\ IF IsBrowserClosed(err)
          THEN pc' = "after_loop" /\ term' = "FATAL_ABORT" /\ emptyRounds' = emptyRounds
          ELSE /\ emptyRounds' = emptyRounds + 1
               /\ IF EndOfPhotos(emptyRounds + 1)
                  THEN pc' = "after_loop" /\ term' = "EXHAUSTED"
                  ELSE pc' = "loop_top" /\ term' = term
  /\ UNCHANGED <<ret, dErr, cand, dateInfo, consecutiveErrors, retry, stats, logged>>
  /\ UNCHANGED <<selected, downloaded>>
  /\ UNCHANGED <<cfgVars, obsVars, askVars>>


(* ------------------------- selection.Deselect -------------------------- *)
\* Deselect returns err to its caller, which goes on:
\*   "pre"   ClearPendingSelection logs it; run goes on to SelectFirstVisibleDate
\*   "stop"  run ignores it and breaks (date before the range)
\*   "skip"  run ignores it and scrolls past the skipped date
\*   "retry" the retry loop of run: a closed browser breaks out of that loop
DeselectReturns(err) ==
  /\ dErr' = err
  /\ pc' = CASE ret = "pre" -> "locate"
             [] ret = "stop" -> "after_loop"
             [] ret = "skip" -> "skip_scroll"
             [] OTHER -> IF IsBrowserClosed(err) THEN "ctx_check" ELSE "retry_has_sel"
  /\ term' = IF ret = "stop" THEN "RANGE_STOPPED" ELSE term

\* the Evaluate that looks for the X button: its error is returned
DeselectFind ==
  /\ pc = "ds_find"
  /\ \E err \in Results, cd \in BOOLEAN, found \in BOOLEAN :
       /\ Call("Deselect.find", err, cd)
       /\ IF err # "nil"
          THEN DeselectReturns(err)
          ELSE /\ pc' = IF found THEN "ds_click" ELSE "ds_esc"
               /\ UNCHANGED <<dErr, term>>
  /\ UNCHANGED <<ret, cand, dateInfo, emptyRounds, consecutiveErrors, retry, stats, logged>>
  /\ UNCHANGED <<cfgVars, surfVars, obsVars, askVars>>

\* MouseClickXY on the X button: an error is only logged.  The button found by
\* the selectors may or may not be the one that clears the selection (works).
DeselectClick ==
  /\ pc = "ds_click"
  /\ \E err \in Results, cd \in BOOLEAN, works \in BOOLEAN :
       /\ Call("Deselect.click", err, cd)
       /\ selected' = IF err = "nil" /\ works THEN {} ELSE selected
  /\ pc' = "ds_check"
  /\ UNCHANGED <<ret, dErr, cand, dateInfo, emptyRounds, consecutiveErrors, retry, stats, logged, term>>
  /\ UNCHANGED <<scrollY, downloaded>>
  /\ UNCHANGED <<cfgVars, obsVars, askVars>>

\* KeyEvent ESC: an error is only logged
DeselectEsc ==
  /\ pc = "ds_esc"
  /\ \E err \in Results, cd \in BOOLEAN, works \in BOOLEAN :
       /\ Call("Deselect.esc", err, cd)
       /\ selected' = IF err = "nil" /\ works THEN {} ELSE selected
  /\ pc' = "ds_check"
  /\ UNCHANGED <<ret, dErr, cand, dateInfo, emptyRounds, consecutiveErrors, retry, stats, logged, term>>
  /\ UNCHANGED <<scrollY, downloaded>>
  /\ UNCHANGED <<cfgVars, obsVars, askVars>>

\* the Evaluate that looks for a remaining selection: an error is only logged
\* and reads as "none"
DeselectCheck ==
  /\ pc = "ds_check"
  /\ \E err \in Results, cd \in BOOLEAN :
       /\ Call("Deselect.check", err, cd)
       /\ IF err = "nil" /\ selected # {}
          THEN pc' = "ds_empty_click" /\ UNCHANGED <<dErr, term>>
          ELSE DeselectReturns("nil")
  /\ UNCHANGED <<ret, cand, dateInfo, emptyRounds, consecutiveErrors, retry, stats, logged>>
  /\ UNCHANGED <<cfgVars, surfVars, obsVars, askVars>>

\* MouseClickXY(800, 400): an error is only logged; Deselect returns nil
DeselectEmptyArea ==
  /\ pc = "ds_empty_click"
  /\ \E err \in Results, cd \in BOOLEAN, works \in BOOLEAN :
       /\ Call("Deselect.emptyArea", err, cd)
       /\ selected' = IF err = "nil" /\ works THEN {} ELSE selected
  /\ DeselectReturns("nil")
  /\ UNCHANGED <<ret, cand, dateInfo, emptyRounds, consecutiveErrors, retry, stats, logged>>
  /\ UNCHANGED <<scrollY, downloaded>>
  /\ UNCHANGED <<cfgVars, obsVars, askVars>>

(* ---------------------- run: skip, download, advance ------------------- *)
\* run, lines 238-242: ScrollToPosition past a skipped date; any error is
\* only logged
SkipScroll ==
  /\ pc = "skip_scroll"
  /\ \E err \in Results, cd \in BOOLEAN :
       /\ Call("ScrollToPosition", err, cd)
       /\ scrollY' = IF err = "nil"
                     THEN ScrollBy(scrollY, ScrollToPositionDelta(dateInfo.YPosition), docHeight)
                     ELSE scrollY
  /\ pc' = "loop_top"
  /\ UNCHANGED <<ret, dErr, cand, dateInfo, emptyRounds, consecutiveErrors, retry, stats, logged, term>>
  /\ UNCHANGED <<selected, downloaded>>
  /\ UNCHANGED <<cfgVars, obsVars, askVars>>

\* run, lines 251-262: download.ClickDownloadButton.  The script's result
\* ('clicked' or 'not found') is discarded; when it finds the button (found)
\* the page starts a download of what is selected.
Download ==
  /\ pc = "download"
  /\ downloadSteps' = [downloadSteps EXCEPT ![dateInfo.idx] = Min(@ + 1, 2)]
  /\ \E err \in Results, cd \in BOOLEAN, found \in BOOLEAN :
       /\ Call("ClickDownloadButton", err, cd)
       /\ downloaded' = IF err = "nil" /\ found THEN downloaded \cup selected ELSE downloaded
       /\ IF IsBrowserClosed(err)
          THEN /\ pc' = "after_loop" /\ term' = "FATAL_ABORT"
               /\ UNCHANGED <<stats, ret, retry>>
          ELSE /\ stats' = IF err # "nil"
                           THEN AddError(IncrementDownloadsFailed(stats), dateInfo.Text)
                           ELSE IncrementDownloadsStarted(stats)
               /\ pc' = "ds_find" /\ ret' = "retry" /\ retry' = 0
               /\ term' = term
  /\ UNCHANGED <<dErr, cand, dateInfo, emptyRounds, consecutiveErrors, logged>>
  /\ UNCHANGED <<scrollY, selected>>
  /\ UNCHANGED <<reports, closes, runErr>>
  /\ UNCHANGED <<cfgVars, askVars>>

\* run, lines 276-281: HasActiveSelection after a Deselect of the retry loop
RetryHasSelection ==
  /\ pc = "retry_has_sel"
  /\ \E err \in Results, cd \in BOOLEAN :
       /\ Call("HasActiveSelection", err, cd)
       /\ IF err = "nil" /\ selected # {}
          THEN /\ retry' = retry + 1
               /\ pc' = IF RetryAgain(retry + 1) THEN "ds_find" ELSE "ctx_check"
          ELSE /\ retry' = retry
               /\ pc' = "ctx_check"
  /\ UNCHANGED <<ret, dErr, cand, dateInfo, emptyRounds, consecutiveErrors, stats, logged, term>>
  /\ UNCHANGED <<cfgVars, surfVars, obsVars, askVars>>

\* run, lines 285-288: the context check after the retry loop
ContextCheck ==
  /\ pc = "ctx_check"
  /\ IF IsContextCanceled(ctxDone)
     THEN pc' = "after_loop" /\ term' = "FATAL_ABORT"
     ELSE pc' = "advance" /\ term' = term
  /\ UNCHANGED <<ret, dErr, cand, dateInfo, emptyRounds, consecutiveErrors, retry, stats, logged>>
  /\ UNCHANGED <<cfgVars, surfVars, callVars, obsVars, askVars>>

\* run, lines 292-301: ScrollToPosition past the processed date, then
\* stats.IncrementDatesProcessed()
Advance ==
  /\ pc = "advance"
  /\ \E err \in Results, cd \in BOOLEAN :
       /\ Call("ScrollToPosition", err, cd)
       /\ scrollY' = IF err = "nil"
                     THEN ScrollBy(scrollY, ScrollToPositionDelta(dateInfo.YPosition), docHeight)
                     ELSE scrollY
       /\ IF IsBrowserClosed(err)
          THEN pc' = "after_loop" /\ term' = "FATAL_ABORT" /\ stats' = stats
          ELSE pc' = "loop_top" /\ term' = term /\ stats' = IncrementDatesProcessed(stats)
  /\ UNCHANGED <<ret, dErr, cand, dateInfo, emptyRounds, consecutiveErrors, retry, logged>>
  /\ UNCHANGED <<selected, downloaded>>
  /\ UNCHANGED <<cfgVars, obsVars, askVars>>

\* run, lines 304-306: the loop is left; run logs and blocks in select {}
\* for ever, so its deferred calls never run
AfterLoop ==
  /\ pc = "after_loop"
  /\ pc' = "blocked"
  /\ UNCHANGED <<ret, dErr, cand, dateInfo, emptyRounds, consecutiveErrors, retry, stats, logged, term>>
  /\ UNCHANGED <<cfgVars, surfVars, callVars, obsVars, askVars>>


(* ---------------------- Range Filter queries (harness) ----------------- *)
AskInRange ==
  /\ pc = "asking"
  /\ "in" \notin answer.asked
  /\ answer' = [answer EXCEPT !.asked = @ \cup {"in"},
                              !.err = IsInRange(dateRange, probe, nowYear).err,
                              !.in = IsInRange(dateRange, probe, nowYear).in]
  /\ UNCHANGED <<probe, fault, verdict, host, detected, cfgVars, surfVars, callVars, engVars, obsVars>>

AskBeforeRange ==
  /\ pc = "asking"
  /\ "before" \notin answer.asked
  /\ answer' = [answer EXCEPT !.asked = @ \cup {"before"},
                              !.before = IsBeforeRange(dateRange, probe, nowYear)]
  /\ UNCHANGED <<probe, fault, verdict, host, detected, cfgVars, surfVars, callVars, engVars, obsVars>>

AskAfterRange ==
  /\ pc = "asking"
  /\ "after" \notin answer.asked
  /\ answer' = [answer EXCEPT !.asked = @ \cup {"after"},
                              !.after = IsAfterRange(dateRange, probe, nowYear)]
  /\ UNCHANGED <<probe, fault, verdict, host, detected, cfgVars, surfVars, callVars, engVars, obsVars>>

\* ParseYandexDate(dateText) called on the label probe
AskParseYandexDate ==
  /\ pc = "asking"
  /\ ~answer.parse.asked
  /\ answer' = [answer EXCEPT !.parse = [asked |-> TRUE,
                                          err |-> ParseYandexDate(probe, nowYear).err,
                                          t |-> ParseYandexDate(probe, nowYear).t]]
  /\ UNCHANGED <<probe, fault, verdict, host, detected, cfgVars, surfVars, callVars, engVars, obsVars>>

\* browser.IsBrowserClosed(err) called on the error value fault
AskBrowserClosed ==
  /\ pc = "classifying"
  /\ ~verdict.asked
  /\ verdict' = [asked |-> TRUE, closed |-> IsBrowserClosedError(fault)]
  /\ UNCHANGED <<probe, answer, fault, host, detected, cfgVars, surfVars, callVars, engVars, obsVars>>

\* browser.DetectBrowser() called on the machine host
AskDetectBrowser ==
  /\ pc = "detecting"
  /\ ~detected.asked
  /\ detected' = [asked |-> TRUE, result |-> DetectBrowser(host)]
  /\ UNCHANGED <<probe, answer, fault, verdict, host, cfgVars, surfVars, callVars, engVars, obsVars>>

(* ----------------------------- initial states -------------------------- *)
\* the machine the runs are made on: Linux with Chrome installed
ThisHost == [goos |-> "linux", files |-> {"/usr/bin/google-chrome"}, onPath |-> {}]
FirstTop == 100
GroupHeight == 20
Gaps == {300, 1300}
Tails == {0, 4000}
Today == <<2024, 7, 10>>
Todays == {<<2024, 7, 10>>, <<2024, 6, 15>>}

Label(d, m, y, s) == [day |-> d, month |-> m, year |-> y, sep |-> s]

\* labels the page of a run may render
PageLabels ==
  { Label(5, 7, 0, "sp"),
    Label(5, 6, 0, "sp"), Label(5, 6, 0, "nbsp"), Label(5, 6, 2024, "sp"),
    Label(1, 6, 2024, "sp"),
    Label(25, 5, 0, "sp"), Label(25, 5, 2024, "sp") }

\* -from/-to pairs of a run
RunFlags ==
  { <<EmptyStr, EmptyStr>>, <<<<2024, 6, 1>>, <<2024, 6, 30>>>>,
    <<<<2024, 6, 30>>, <<2024, 6, 1>>>> }

\* the day a label stands for, as the page means it
ShownDay(label, year) ==
  Date(IF label.year # 0 THEN label.year ELSE year, label.month, label.day)

\* the page lists the groups newest first
NewestFirst(ls, year) ==
  \A i \in 1..(Len(ls) - 1) : ShownDay(ls[i], year) > ShownDay(ls[i + 1], year)

Page(ls, gap) ==
  [i \in 1..Len(ls) |-> [label |-> ls[i], top |-> FirstTop + (i - 1) * gap, h |-> GroupHeight]]

PageHeight(gs, tail) ==
  IF Len(gs) = 0 THEN InnerHeight + tail
  ELSE Max(InnerHeight, gs[Len(gs)].top + gs[Len(gs)].h) + tail

InitRest ==
  /\ scrollY = 0
  /\ selected = {}
  /\ downloaded = {}
  /\ session = "none"
  /\ ctxDone = FALSE
  /\ transientLeft = MaxTransient
  /\ ret = "pre"
  /\ dErr = "nil"
  /\ cand = NoCand
  /\ dateInfo = NoDate
  /\ emptyRounds = 0
  /\ consecutiveErrors = 0
  /\ retry = 0
  /\ stats = NewStats
  /\ logged = {}
  /\ term = "none"
  /\ fatalAt = "none"
  /\ downloadSteps = [i \in 1..Len(groups) |-> 0]
  /\ reports = 0
  /\ closes = 0
  /\ runErr = "none"
  /\ answer = NoAnswer
  /\ verdict = NoVerdict
  /\ detected = [asked |-> FALSE, result |-> NotDetected]

\* main() has parsed the flags and called NewDateRange
Init ==
  /\ today = Today
  /\ \E f \in RunFlags : cfgFrom = f[1] /\ cfgTo = f[2]
  /\ dateRange = NewDateRange(cfgFrom, cfgTo, Now)
  /\ \E n \in 0..MaxGroups, gap \in Gaps, tail \in Tails :
       \E ls \in [1..n -> PageLabels] :
         /\ NewestFirst(ls, today[1])
         /\ groups = Page(ls, gap)
         /\ docHeight = PageHeight(groups, tail)
  /\ pc = "main"
  /\ probe = NoLabel
  /\ fault = NilError
  /\ host = ThisHost
  /\ InitRest

Next ==
  \/ Main
  \/ RunStart
  \/ Navigate
  \/ ConfigureDownloads
  \/ CheckLoginStatus
  \/ WaitForLoginPoll
  \/ WaitForLoginTimeout
  \/ NavigateAfterLogin
  \/ FilterByUnlimitedStorage
  \/ RunReturn
  \/ LoopTop
  \/ ClearPendingSelection
  \/ Locate
  \/ DoubleCheckContext
  \/ Hover
  \/ ClickCheckbox
  \/ DirectClick
  \/ ScrollDown
  \/ DeselectFind
  \/ DeselectClick
  \/ DeselectEsc
  \/ DeselectCheck
  \/ DeselectEmptyArea
  \/ SkipScroll
  \/ Download
  \/ RetryHasSelection
  \/ ContextCheck
  \/ Advance
  \/ AfterLoop
  \/ ContextTimeout

Spec == Init /\ [][Next]_vars

\* the scheduler runs the single goroutine of run whenever it can step
FairSpec == Spec /\ WF_vars(Next)

(* the Range Filter on its own: flags, the clock and a label are drawn, and
   the three queries are made *)
ProbeDays == {1, 30, 31}
ProbeMonths == {0, 5, 6, 7}
ProbeYears == {0, 1969, 2024, 2025}
ProbeLabels ==
  {Label(d, m, y, s) : d \in ProbeDays, m \in ProbeMonths, y \in ProbeYears, s \in {"sp", "nbsp"}}
ProbeFlagValues ==
  {EmptyStr, BadStr, <<2024, 6, 1>>, <<2024, 6, 30>>, <<2024, 6, 31>>, <<2024, 7, 1>>}

ClassifyInit ==
  /\ today \in Todays
  /\ cfgFrom \in ProbeFlagValues
  /\ cfgTo \in ProbeFlagValues
  /\ dateRange = NewDateRange(cfgFrom, cfgTo, Now)
  /\ groups = <<>>
  /\ docHeight = InnerHeight
  /\ pc = IF dateRange.err THEN "config_error" ELSE "asking"
  /\ probe \in ProbeLabels
  /\ fault = NilError
  /\ host = ThisHost
  /\ InitRest

ClassifyNext == AskInRange \/ AskBeforeRange \/ AskAfterRange \/ AskParseYandexDate

ClassifySpec == ClassifyInit /\ [][ClassifyNext]_vars

(* IsBrowserClosed on its own: an error value is drawn and classified *)
MaxPieces == 3
PieceTexts ==
  { "context ", "canceled", "cancelled", "deadline exceeded", "websocket: ", "close", "d",
    "target ", "browser: ", "not connected", "session ", "page ", "connection ", "refused",
    "broken ", "pipe", "element not found" }
Pieces == {Piece(t, up) : t \in PieceTexts, up \in BOOLEAN}
Messages == UNION {[1..n -> Pieces] : n \in 0..MaxPieces}
ErrorValues == {NilError} \cup {ErrorOf(m) : m \in Messages}

FaultInit ==
  /\ today = Today
  /\ cfgFrom = EmptyStr /\ cfgTo = EmptyStr
  /\ dateRange = NewDateRange(cfgFrom, cfgTo, Now)
  /\ groups = <<>>
  /\ docHeight = InnerHeight
  /\ pc = "classifying"
  /\ probe = NoLabel
  /\ fault \in ErrorValues
  /\ host = ThisHost
  /\ InitRest

FaultNext == AskBrowserClosed

FaultSpec == FaultInit /\ [][FaultNext]_vars

(* DetectBrowser on its own: a machine is drawn and searched *)
MaxInstalled == 3
Platforms == {"windows", "darwin", "linux"}
\* the machine searched: up to MaxInstalled of the platform's candidate paths
\* exist on it (slot[i] = 0: nothing), and any of the names may be on the PATH
DetectInit ==
  /\ today = Today
  /\ cfgFrom = EmptyStr /\ cfgTo = EmptyStr
  /\ dateRange = NewDateRange(cfgFrom, cfgTo, Now)
  /\ groups = <<>>
  /\ docHeight = InnerHeight
  /\ pc = "detecting"
  /\ probe = NoLabel
  /\ fault = NilError
  /\ \E g \in Platforms :
       \E slot \in [1..MaxInstalled -> 0..Len(CandidatesOf(g))],
          n \in SUBSET {LookPathNames[i] : i \in 1..Len(LookPathNames)} :
         /\ \A i \in 1..(MaxInstalled - 1) : slot[i] <= slot[i + 1]
         /\ host = [goos |-> g,
                    files |-> {CandidatesOf(g)[slot[i]].path : i \in {k \in 1..MaxInstalled : slot[k] # 0}},
                    onPath |-> n]
  /\ InitRest

DetectNext == AskDetectBrowser

DetectSpec == DetectInit /\ [][DetectNext]_vars


(* ------------------------------ vocabulary ----------------------------- *)
\* positions of run at which the next step is a surface call of the loop
SelectPcs == {"locate", "hover", "click_checkbox", "direct_click"}
DeselectPcs == {"ds_find", "ds_click", "ds_esc", "ds_check", "ds_empty_click"}
HasSelectionPcs == {"pre_has_sel", "retry_has_sel"}
ScrollPcs == {"scroll_down", "skip_scroll", "advance"}
LoopCallPcs == SelectPcs \cup DeselectPcs \cup HasSelectionPcs \cup ScrollPcs \cup {"download"}
LoopLeftPcs == {"after_loop", "blocked"}

NoFaultSoFar == transientLeft = MaxTransient /\ session = "alive" /\ fatalAt = "none"

(* ------------------------------- claims -------------------------------- *)

\* C1: at-most-once processing.  Within one run no group reaches the
\* download step twice: once an iteration has reached the download step for a
\* group, no later scan returns that group.
AtMostOnce == \A i \in 1..Len(groups) : downloadSteps[i] <= 1

\* C2: monotonic cursor.  Every ScrollToPosition is issued with a position
\* y >= 80, so with a delta y - 50 >= 0; ScrollDown scrolls by +600; and no
\* step of a run decreases the scroll offset.
MonotonicCursor ==
  [][ /\ scrollY' >= scrollY
      /\ (pc \in {"skip_scroll", "advance"} =>
            /\ dateInfo.YPosition >= BandTop
            /\ ScrollToPositionDelta(dateInfo.YPosition) >= 0)
      /\ (pc = "scroll_down" => ScrollDownDelta >= 0) ]_vars

\* C2 witness: both kinds of scroll have moved the page
ScrolledBothWays ==
  /\ pc = "loop_top" /\ stats.DatesProcessed >= 1 /\ emptyRounds >= 1
  /\ scrollY > DefaultScrollAmount

\* C3: fatal short-circuit.  Once a surface call of an iteration has returned
\* a fatal fault, run issues no further surface call, and the counters keep
\* the values they had before the faulting call.
FatalShortCircuit ==
  [][ /\ (fatalAt \in LoopCallPcs => pc \notin LoopCallPcs /\ stats' = stats)
      /\ (fatalAt = "none" /\ fatalAt' \in LoopCallPcs => stats' = stats) ]_vars

\* C4: final report.  When the loop has terminated and run has nothing left
\* to do, the final report has been produced exactly once.
FinalReportProduced == pc = "blocked" => reports = 1

\* C5: exhaustion.  With no range configured, the empty round that brings
\* emptyRounds to 5 leaves the loop at once with the counters untouched
\* (EXHAUSTED unless its own scroll found the browser closed), and after the
\* loop is left no surface call is issued and no counter changes.
Exhaustion ==
  [][ /\ (/\ pc = "scroll_down" /\ pc' # pc
          /\ ~dateRange.Enabled /\ emptyRounds = MaxEmptyRounds - 1
          => /\ pc' = "after_loop"
             /\ stats' = stats
             /\ (session' = "alive" => term' = "EXHAUSTED"))
      /\ (term' = "EXHAUSTED" /\ term # "EXHAUSTED" =>
            pc = "scroll_down" /\ emptyRounds = MaxEmptyRounds - 1)
      /\ (pc \in LoopLeftPcs => pc' \notin LoopCallPcs /\ stats' = stats) ]_vars

\* C5 witness: a run without range ended by exhaustion after earlier successes
ExhaustedAfterSuccess ==
  /\ pc = "blocked" /\ term = "EXHAUSTED" /\ ~dateRange.Enabled
  /\ emptyRounds = MaxEmptyRounds /\ stats.DatesProcessed >= 2

\* C6: early stop.  With the range 2024-06-01..2024-06-30 and the groups
\* "5 June 2024", "1 June 2024", "25 May 2024", a run without faults ends in
\* RANGE_STOPPED at the third group having processed exactly the first two,
\* and the third is neither processed nor skipped.
EarlyStopExample ==
  ( /\ pc = "blocked" /\ NoFaultSoFar
    /\ cfgFrom = <<2024, 6, 1>> /\ cfgTo = <<2024, 6, 30>>
    /\ Len(groups) = 3
    /\ groups[1].label = Label(5, 6, 2024, "sp")
    /\ groups[2].label = Label(1, 6, 2024, "sp")
    /\ groups[3].label = Label(25, 5, 2024, "sp") )
  => /\ term = "RANGE_STOPPED"
     /\ stats.DatesProcessed = 2
     /\ stats.SkippedDates = 0
     /\ dateInfo.idx = 3


\* the calendar day <<y, m, d>> a well-formed label names
LabelDay(label, year) ==
  <<IF label.year # 0 THEN label.year ELSE year, label.month, label.day>>

NamesADay(label, year) ==
  /\ label.sep = "sp" /\ label.month \in 1..12
  /\ label.day \in 1..DaysIn(LabelDay(label, year)[1], label.month)

DayLess(a, b) ==
  \/ a[1] < b[1]
  \/ a[1] = b[1] /\ a[2] < b[2]
  \/ a[1] = b[1] /\ a[2] = b[2] /\ a[3] < b[3]

DayLeq(a, b) == a = b \/ DayLess(a, b)

\* the configured bounds as calendar days
FromDay == IF cfgFrom = EmptyStr THEN <<EpochYear, 1, 1>> ELSE cfgFrom
ToDay == IF cfgTo = EmptyStr THEN today ELSE cfgTo

AllAsked == answer.asked = {"in", "before", "after"}

\* how many of within, before, after were answered with true
VerdictsTrue ==
  Cardinality({x \in {"in", "before", "after"} :
                 \/ x = "in" /\ answer.in
                 \/ x = "before" /\ answer.before
                 \/ x = "after" /\ answer.after})

\* C7: range classification.  For an enabled range and a label naming the
\* day d: IsInRange is true iff From <= d <= To, IsBeforeRange iff d < From,
\* IsAfterRange iff d > To; and for every label that parses exactly one of
\* the three holds.
RangeClassification ==
  /\ (pc = "asking" /\ dateRange.Enabled /\ NamesADay(probe, nowYear)) =>
       LET d == LabelDay(probe, nowYear)
       IN  /\ ("in" \in answer.asked =>
                 /\ ~answer.err
                 /\ answer.in = (DayLeq(FromDay, d) /\ DayLeq(d, ToDay)))
           /\ ("before" \in answer.asked => answer.before = DayLess(d, FromDay))
           /\ ("after" \in answer.asked => answer.after = DayLess(ToDay, d))
  /\ (pc = "asking" /\ dateRange.Enabled /\ AllAsked /\ ~answer.err) =>
       VerdictsTrue = 1

June2024 == cfgFrom = <<2024, 6, 1>> /\ cfgTo = <<2024, 6, 30>>

\* C7 witness: "30 June 2024" asked against 2024-06-01..2024-06-30 is within
ClassifiedUpperBound ==
  /\ pc = "asking" /\ June2024 /\ AllAsked
  /\ probe = Label(30, 6, 2024, "sp")
  /\ answer.in /\ ~answer.before /\ ~answer.after

ParseFailureConservatism ==
  [][ /\ (/\ pc \in {"click_checkbox", "direct_click"} /\ dateInfo' # NoDate
          /\ dateRange.Enabled /\ ParseYandexDate(dateInfo'.Text, nowYear).err
          => /\ pc' = "download"
             /\ "parse_failure" \in logged'
             /\ stats' = stats
             /\ term' = "none")
      /\ ("parse_failure" \in logged =>
            /\ stats'.SkippedDates = stats.SkippedDates
            /\ term' # "RANGE_STOPPED"
            /\ (pc = "advance" /\ session' = "alive" =>
                  /\ pc' = "loop_top"
                  /\ stats'.DatesProcessed = stats.DatesProcessed + 1)) ]_vars

\* C9 witness: a group whose label does not parse has been downloaded and
\* counted under an enabled range
UnparsedProcessed ==
  /\ pc = "loop_top" /\ dateRange.Enabled /\ "parse_failure" \in logged
  /\ stats.DatesProcessed >= 1 /\ stats.SkippedDates = 0
  /\ \E i \in 1..Len(groups) : groups[i].label.sep = "nbsp" /\ downloadSteps[i] = 1

\* C10: fatal faults are never absorbed.  When a surface call of a component
\* operation returns a fatal fault, the operation hands it to run: Deselect
\* returns it, and a fatal fault in SelectFirstVisibleDate, HasActiveSelection,
\* ClearPendingSelection, ScrollDown, ScrollToPosition or ClickDownloadButton
\* reaches run, which leaves the loop.
FatalNeverAbsorbed ==
  [][ (fatalAt = "none" /\ fatalAt' # "none") =>
        /\ (pc \in DeselectPcs => dErr' = "fatal")
        /\ (pc \in DeselectPcs /\ ret = "pre" => pc' = "after_loop")
        /\ (pc \in SelectPcs \cup HasSelectionPcs \cup {"scroll_down", "download", "advance"}
              => pc' = "after_loop") ]_vars

\* the pieces of a message from position i on spell the words ws, in any case
SpellsAt(m, i, ws) ==
  /\ i + Len(ws) - 1 <= Len(m)
  /\ \A k \in 1..Len(ws) : m[i + k - 1].t = ws[k]

\* the message names one of the ways a session ends
SessionEnded(m) ==
  \E i \in 1..Len(m) :
    \/ SpellsAt(m, i, <<"context ", "canceled">>)
    \/ SpellsAt(m, i, <<"context ", "deadline exceeded">>)
    \/ SpellsAt(m, i, <<"websocket: ", "close">>)
    \/ \E what \in {"target ", "session ", "page "} : SpellsAt(m, i, <<what, "close", "d">>)
    \/ SpellsAt(m, i, <<"browser: ", "not connected">>)
    \/ SpellsAt(m, i, <<"connection ", "refused">>)
    \/ SpellsAt(m, i, <<"broken ", "pipe">>)

\* C11: fault classification.  IsBrowserClosed answers true exactly for the
\* non-nil errors whose message, read without regard to case, names a way the
\* session ended (context canceled or deadline exceeded, websocket close,
\* target/session/page closed, browser not connected, connection refused,
\* broken pipe); every other error, "element not found" included, is
\* transient (false), and nil is not fatal.
FaultClassification ==
  (pc = "classifying" /\ verdict.asked) =>
    /\ (fault.isNil => ~verdict.closed)
    /\ (~fault.isNil => (verdict.closed <=> SessionEnded(fault.msg)))
    /\ (fault.msg = Lower(<<"element not found">>) => ~verdict.closed)

\* C11 witness: a wrapped "Target Closed" written in capitals is fatal
FatalInCapitals ==
  /\ pc = "classifying" /\ verdict.asked /\ verdict.closed
  /\ fault = ErrorOf(<<Piece("target ", TRUE), Piece("close", TRUE), Piece("d", TRUE)>>)

\* positions of run inside the traversal loop
LoopPcs == LoopCallPcs \cup {"loop_top", "double_check", "ctx_check"}

\* C12: session teardown.  browserCtx.Close() has run exactly once when the
\* loop has terminated and run has nothing left to do, whichever way the loop
\* was left, and it never runs while the loop is running.
SessionTeardown ==
  /\ (pc = "blocked" => closes = 1)
  /\ (pc \in LoopPcs => closes = 0)

\* C13: completeness.  In a run without faults and with no range, when the
\* run has terminated every group of the page has reached the download step;
\* none was passed over by an advance scroll or a default scroll.
Completeness ==
  (pc = "blocked" /\ NoFaultSoFar /\ ~dateRange.Enabled) =>
    \A i \in 1..Len(groups) : downloadSteps[i] >= 1

\* C14: termination.  A run without faults leaves the loop: an iteration
\* either counts an empty round (five in a row end the run), stops by range,
\* or handles a group and scrolls past it.  The scroll offset is bounded by
\* the document, so the loop is left exactly if every scroll past a handled
\* group moves the page; a scroll that leaves the page where it was shows the
\* next scan the same group again, and the iteration repeats for ever.
Termination ==
  [][ (NoFaultSoFar /\ NoFaultSoFar' /\ pc \in {"advance", "skip_scroll"} /\ pc' = "loop_top")
        => scrollY' > scrollY ]_vars

\* C15: unbounded defaults.  NewDateRange(from, "") sets To to the time of
\* construction; NewDateRange("", to) sets From so early that, with only an
\* upper bound configured, no label that parses is classified before the
\* range.
UnboundedDefaults ==
  /\ (pc = "asking" /\ cfgFrom # EmptyStr /\ cfgTo = EmptyStr) => dateRange.To = Now
  /\ (pc = "asking" /\ cfgFrom = EmptyStr /\ cfgTo # EmptyStr) =>
       /\ dateRange.From = Date(EpochYear, 1, 1)
       /\ ("before" \in answer.asked /\ ~ParseYandexDate(probe, nowYear).err
             => ~answer.before)

\* a flag value that is a calendar day written YYYY-MM-DD
WellFormed(v) == Len(v) = 3 /\ v[2] \in 1..12 /\ v[3] \in 1..DaysIn(v[1], v[2])

\* a flag value that is neither empty nor a calendar day
Malformed(v) == v # EmptyStr /\ ~WellFormed(v)

\* C16: single-bound construction.  NewDateRange given exactly one
\* well-formed bound and the other empty succeeds; it fails only for a
\* malformed date, or when both bounds are given and from is after to.
SingleBoundConstruction ==
  /\ ( \/ WellFormed(cfgFrom) /\ cfgTo = EmptyStr
       \/ cfgFrom = EmptyStr /\ WellFormed(cfgTo) ) => ~dateRange.err
  /\ dateRange.err =>
       \/ Malformed(cfgFrom)
       \/ Malformed(cfgTo)
       \/ WellFormed(cfgFrom) /\ WellFormed(cfgTo) /\ DayLess(cfgTo, cfgFrom)

\* what NewDateRange returns for the flag values and clocks of ProbeFlagValues
\* and Todays
ConstructedRanges ==
  {NewDateRange(f, t, Date(d[1], d[2], d[3]) + 1) : f \in ProbeFlagValues, t \in ProbeFlagValues, d \in Todays}

\* C17: range invariant.  Every enabled range that NewDateRange returns
\* without error has From <= To, and no step of run changes the range
\* after its construction.
RangeInvariant ==
  /\ [](dateRange.Enabled /\ ~dateRange.err => dateRange.From <= dateRange.To)
  /\ [](pc = "start" => \A r \in ConstructedRanges : r.Enabled /\ ~r.err => r.From <= r.To)
  /\ [][dateRange' = dateRange]_vars

\* C17 witness: the loop has put a label to the enabled range and found it
\* within
RangeConsulted ==
  /\ pc = "ds_find" /\ ret = "retry" /\ dateRange.Enabled /\ "within" \in logged
  /\ dateRange = NewDateRange(cfgFrom, cfgTo, Now) /\ dateRange.From < dateRange.To

\* C18: configuration failure precedes the surface.  When NewDateRange
\* rejected the flags, the program ends in main: the session is never opened
\* and no surface call (navigate, login check, filter, scan) is issued.
ConfigFailureFirst ==
  /\ [](dateRange.err =>
         /\ pc \in {"main", "config_error"}
         /\ session = "none" /\ fatalAt = "none" /\ transientLeft = MaxTransient
         /\ scrollY = 0 /\ selected = {} /\ downloaded = {})
  /\ [][dateRange.err => pc = "main" /\ pc' = "config_error" /\ session' = "none"]_vars

\* C18 witness: main has ended the program on a -from later than -to
AbortedOnReversedRange ==
  /\ pc = "config_error" /\ dateRange.err /\ session = "none"
  /\ cfgFrom = <<2024, 6, 30>> /\ cfgTo = <<2024, 6, 1>>

\* C19: disabled range.  With both flags empty the range is disabled; every
\* label, whether it parses or not, is within (IsInRange true without error,
\* IsBeforeRange and IsAfterRange false); and a run never skips a group and
\* never stops by range: SkippedDates stays 0 and the loop is left only by
\* exhaustion or fatal abort.
DisabledRange ==
  /\ []((cfgFrom = EmptyStr /\ cfgTo = EmptyStr) <=> ~dateRange.Enabled)
  /\ [](pc = "start" /\ ~dateRange.Enabled =>
         \A l \in ProbeLabels \cup PageLabels :
           /\ IsInRange(dateRange, l, nowYear) = [err |-> FALSE, in |-> TRUE]
           /\ ~IsBeforeRange(dateRange, l, nowYear)
           /\ ~IsAfterRange(dateRange, l, nowYear))
  /\ [](~dateRange.Enabled =>
         /\ stats.SkippedDates = 0
         /\ term \in {"none", "EXHAUSTED", "FATAL_ABORT"}
         /\ logged = {}
         /\ (pc \in LoopLeftPcs => term \in {"EXHAUSTED", "FATAL_ABORT"})
         /\ pc # "skip_scroll"
         /\ (pc \in DeselectPcs => ret \in {"pre", "retry"}))

\* C19 witness: a run without range has processed a group whose label does
\* not parse and has then run out of groups
UnfilteredRunExhausted ==
  /\ pc = "blocked" /\ ~dateRange.Enabled /\ term = "EXHAUSTED"
  /\ stats.SkippedDates = 0 /\ stats.DatesProcessed = 1
  /\ \E i \in 1..Len(groups) : groups[i].label.sep = "nbsp" /\ downloadSteps[i] = 1

\* C20: cancellation at loop top.  Every iteration starts with the check of
\* ctx before any surface call: when ctx is cancelled at the top of an
\* iteration, run leaves the loop (FATAL_ABORT) and that iteration issues no
\* surface call; the first surface call of an iteration is only reached from
\* a check that found ctx alive.
CancellationAtLoopTop ==
  [][ /\ (pc = "loop_top" /\ ctxDone /\ pc' # pc =>
            /\ pc' = "after_loop" /\ term' = "FATAL_ABORT"
            /\ UNCHANGED <<surfVars, callVars, stats, downloadSteps>>)
      /\ (pc' = "pre_has_sel" => pc = "loop_top" /\ ~ctxDone)
      /\ (pc = "loop_top" /\ pc' \in LoopCallPcs => pc' = "pre_has_sel") ]_vars

\* C20 witness: ctx was cancelled between two iterations and the check at the
\* top of the next one has left the loop
LeftAtLoopTop ==
  /\ pc = "after_loop" /\ term = "FATAL_ABORT" /\ ctxDone /\ fatalAt = "none"
  /\ dateInfo = NoDate /\ stats.DatesProcessed >= 1

\* C21: login timeout is fatal at startup.  When the user is not signed in
\* and the wait for the sign-in ends by its timeout, run returns that error
\* without entering the loop: no scan, scroll, select or download call is
\* issued and every counter is 0.
LoginTimeoutFatal ==
  /\ [](runErr = "login_timeout" =>
         /\ pc \in {"returning", "exited"}
         /\ stats = NewStats /\ term = "none" /\ emptyRounds = 0
         /\ scrollY = 0 /\ selected = {} /\ downloaded = {}
         /\ \A i \in 1..Len(groups) : downloadSteps[i] = 0)
  /\ [][ /\ (runErr' = "login_timeout" /\ runErr # "login_timeout" => pc = "wait_login")
         /\ (pc \in {"returning", "exited"} => pc' \notin LoopPcs) ]_vars

\* C21 witness: run has returned the login timeout after a sign-in check that
\* found the user signed out
ReturnedOnLoginTimeout ==
  /\ pc = "exited" /\ runErr = "login_timeout" /\ fatalAt = "none"
  /\ transientLeft = MaxTransient /\ reports = 1 /\ closes = 1

\* the README's priority order
Priority == <<"Chrome", "Chromium", "Edge", "Vivaldi", "Opera", "Brave">>
Rank(b) == CHOOSE i \in 1..Len(Priority) : Priority[i] = b

\* the candidates of the host's platform that exist on it
Installed(h) ==
  {i \in 1..Len(CandidatesOf(h.goos)) : CandidatesOf(h.goos)[i].path \in h.files}

\* C22: browser auto-detection priority.  The platform's candidate list is
\* ordered Chrome, Chromium, Edge, Vivaldi, Opera, Brave; DetectBrowser
\* returns the first candidate path that exists, so a browser of lower
\* priority is returned only when no candidate of a higher one exists; and
\* the PATH lookup is used only when no candidate path exists.
DetectionPriority ==
  (pc = "detecting" /\ detected.asked) =>
    LET c == CandidatesOf(host.goos)
        r == detected.result
    IN  /\ \A i \in 1..Len(c), j \in 1..Len(c) :
             i < j => Rank(c[i].browser) <= Rank(c[j].browser)
        /\ (Installed(host) # {} =>
              /\ r.from = "candidates"
              /\ \E i \in Installed(host) :
                   /\ r.path = c[i].path
                   /\ \A j \in Installed(host) :
                        i <= j /\ Rank(c[i].browser) <= Rank(c[j].browser))
        /\ (r.from = "PATH" => Installed(host) = {} /\ r.path \in host.onPath)
        /\ (r.from = "none" => Installed(host) = {} /\ host.onPath = {})

\* C22 witness: on a Linux machine with Edge and Brave installed and a
\* chromium on the PATH, Edge is found
EdgeBeforeBrave ==
  /\ pc = "detecting" /\ detected.asked
  /\ host = [goos |-> "linux", files |-> {"/usr/bin/microsoft-edge", "/usr/bin/brave-browser"},
             onPath |-> {"chromium"}]
  /\ detected.result = [from |-> "candidates", path |-> "/usr/bin/microsoft-edge"]

\* C23: filter before select.  Locating a group leaves the page as it is, and
\* a group's checkbox is activated only after the Range Filter found the
\* group within the range: no group that is before or after the range is
\* ever selected.
FilterBeforeSelect ==
  \A i \in selected :
    /\ ~IsBeforeRange(dateRange, groups[i].label, nowYear)
    /\ ~IsAfterRange(dateRange, groups[i].label, nowYear)

\* C24: verified selection.  The download step is reached for a group only
\* when the group is in fact selected on the page, as a check of the
\* selection indicator after the selection ladder would confirm; a ladder
\* that ends without the group selected leads to no download.
VerifiedSelection ==
  pc = "download" => dateInfo.idx \in selected

\* C25: empty rounds count only empty windows.  run goes to the default
\* scroll, and counts an empty round, only in an iteration in which no
\* candidate group was visible in the band; an iteration that located a
\* group and could not select it is not an empty round.
EmptyRoundsOnlyEmptyWindows ==
  [][ /\ (pc' = "scroll_down" /\ pc # "scroll_down" => Candidates(groups, scrollY) = {})
      /\ (emptyRounds' > emptyRounds => cand = NoCand) ]_vars

\* what a surface call made by the step returned, read off the environment
ReturnedNil == session = "alive" /\ session' = "alive" /\ transientLeft' = transientLeft
ReturnedTransient == transientLeft' < transientLeft

\* C26: PROCESS accounting.  At the download step a trigger that returns
\* without error adds one to DownloadsStarted; one that fails with a transient
\* error adds one to DownloadsFailed and appends one error entry with the
\* group's label; either way run goes on to deselect, no counter moves during
\* the deselect, and unless the browser is gone run issues the advance scroll
\* for the group's position and adds one to DatesProcessed.
ProcessAccounting ==
  [][ /\ (pc = "download" /\ ReturnedNil =>
            /\ stats' = [stats EXCEPT !.DownloadsStarted = @ + 1]
            /\ pc' = "ds_find" /\ ret' = "retry" /\ dateInfo' = dateInfo)
      /\ (pc = "download" /\ ReturnedTransient =>
            /\ stats' = [stats EXCEPT !.DownloadsFailed = @ + 1,
                                       !.Errors = Append(@, dateInfo.Text)]
            /\ pc' = "ds_find" /\ ret' = "retry" /\ dateInfo' = dateInfo)
      /\ (ret = "retry" /\ pc \in DeselectPcs \cup {"retry_has_sel", "ctx_check"} =>
            /\ stats' = stats /\ dateInfo' = dateInfo
            /\ pc' \in DeselectPcs \cup {"retry_has_sel", "ctx_check", "advance", "after_loop"}
            /\ (pc' = "after_loop" => pc = "ctx_check" /\ ctxDone))
      /\ (pc = "advance" /\ (ReturnedNil \/ ReturnedTransient) =>
            /\ stats' = [stats EXCEPT !.DatesProcessed = @ + 1]
            /\ pc' = "loop_top"
            /\ (ReturnedNil =>
                  scrollY' = ScrollBy(scrollY, dateInfo.YPosition - ScrollMargin, docHeight))) ]_vars

\* C26 witness: a group whose download trigger failed has been deselected,
\* passed and counted
FailedDownloadCounted ==
  /\ pc = "loop_top" /\ stats.DownloadsFailed = 1 /\ stats.DownloadsStarted = 0
  /\ stats.DatesProcessed = 1 /\ Len(stats.Errors) = 1
  /\ Len(groups) >= 1 /\ stats.Errors[1] = groups[1].label /\ scrollY > 0

\* C27: download-started accuracy.  DownloadsStarted goes up only when the
\* download control was found and activated, so that the page has started a
\* download of what is selected; when no control matches, the iteration is
\* recorded as a failed download with an error entry.
DownloadStartedAccuracy ==
  [][ /\ (pc = "download" /\ stats'.DownloadsStarted > stats.DownloadsStarted =>
            selected \subseteq downloaded')
      /\ (pc = "download" /\ ReturnedNil /\ ~(selected \subseteq downloaded') =>
            /\ stats'.DownloadsFailed = stats.DownloadsFailed + 1
            /\ stats'.Errors = Append(stats.Errors, dateInfo.Text)) ]_vars

\* the groups of the page that lie after the range
AfterRangeGroups ==
  {i \in 1..Len(groups) : IsAfterRange(dateRange, groups[i].label, nowYear)}

\* an iteration that finds a group after the range adds one to SkippedDates,
\* goes through one Deselect and one scroll for the group's position, never
\* reaches the download step and moves no other counter
SkipIteration ==
  /\ (pc \in {"click_checkbox", "direct_click"} /\ dateInfo' # NoDate
        /\ IsAfterRange(dateRange, dateInfo'.Text, nowYear) =>
        /\ stats' = [stats EXCEPT !.SkippedDates = @ + 1]
        /\ pc' = "ds_find" /\ ret' = "skip")
  /\ (ret = "skip" /\ pc \in DeselectPcs \cup {"skip_scroll"} =>
        /\ stats' = stats
        /\ pc' \in DeselectPcs \cup {"skip_scroll", "loop_top"}
        /\ (pc' = "loop_top" => pc = "skip_scroll")
        /\ (pc = "skip_scroll" /\ ReturnedNil =>
              scrollY' = ScrollBy(scrollY, dateInfo.YPosition - ScrollMargin, docHeight)))

\* C28: SKIP accounting.  Every iteration that finds a group after the
\* range counts one skipped date, deselects once, scrolls once for the
\* group's position, triggers no download and leaves the other counters as
\* they are; and over a run each group after the range is counted as skipped
\* at most once.
SkipAccounting ==
  /\ [][SkipIteration]_vars
  /\ [](stats.SkippedDates <= Cardinality(AfterRangeGroups))

\* the selection step hands run a date: SelectFirstVisibleDate returned a group
GroupFound == pc \in {"click_checkbox", "direct_click"} /\ dateInfo' # NoDate

\* C29: empty-round counter.  emptyRounds is set to 0 by every iteration
\* that finds a group and changes to 0 nowhere else; it goes up by exactly one
\* in every iteration whose scan returned none, whether the default scroll
\* succeeded or failed with a transient error; an iteration that ends in a
\* transient locate error leaves it as it is; and it never exceeds 5.
EmptyRoundCounter ==
  /\ [](emptyRounds \in 0..MaxEmptyRounds)
  /\ [][ /\ (GroupFound => emptyRounds' = 0)
         /\ (emptyRounds' # emptyRounds =>
               \/ GroupFound /\ emptyRounds' = 0
               \/ pc = "scroll_down" /\ emptyRounds' = emptyRounds + 1)
         /\ (pc = "scroll_down" /\ (ReturnedNil \/ ReturnedTransient) =>
               emptyRounds' = emptyRounds + 1)
         /\ (pc \in SelectPcs /\ ReturnedTransient /\ pc' = "loop_top" =>
               emptyRounds' = emptyRounds) ]_vars

\* C29 witness: after an empty round and its scroll a group was found and
\* the counter is back at 0
RoundsResetOnFound ==
  /\ pc = "download" /\ emptyRounds = 0 /\ NoFaultSoFar
  /\ stats.DatesProcessed = 0 /\ scrollY = DefaultScrollAmount

\* SelectFirstVisibleDate returned an error that IsBrowserClosed rejects
LocateError == pc \in {"locate", "hover", "click_checkbox"} /\ ReturnedTransient

\* SelectFirstVisibleDate returned without error: a group, or none
LocateCompleted == GroupFound \/ (pc \in SelectPcs /\ pc' = "scroll_down")

\* C30: consecutive-error escalation.  Every locate step that completes
\* without error (group found or none) sets consecutiveErrors to 0; a locate
\* error raises it by one, and the context is probed exactly after those
\* locate errors that bring it to the bound 3 or beyond; the loop is left if
\* the probe finds the context done and otherwise the scan is retried with
\* the scroll position unchanged; a transient locate error never ends the loop
\* by itself.
ConsecutiveErrorEscalation ==
  [][ /\ (LocateCompleted => consecutiveErrors' = 0)
      /\ (LocateError =>
            /\ consecutiveErrors' = consecutiveErrors + 1
            /\ scrollY' = scrollY
            /\ pc' = IF consecutiveErrors' >= maxConsecutiveErrors
                     THEN "double_check" ELSE "loop_top")
      /\ (pc' = "double_check" /\ pc # "double_check" =>
            LocateError /\ consecutiveErrors' >= maxConsecutiveErrors)
      /\ (pc = "double_check" /\ pc' # pc =>
            /\ scrollY' = scrollY /\ consecutiveErrors' = consecutiveErrors
            /\ pc' = IF ctxDone THEN "after_loop" ELSE "loop_top")
      /\ (pc = "loop_top" /\ consecutiveErrors > 0 /\ ~ctxDone /\ pc' # pc =>
            pc' = "pre_has_sel" /\ scrollY' = scrollY) ]_vars

\* C30 witness: three locate errors in a row, the probe found the context
\* alive and the scan is being retried
RetriedAfterProbe ==
  /\ pc = "locate" /\ consecutiveErrors >= maxConsecutiveErrors
  /\ session = "alive" /\ ~ctxDone

\* HasActiveSelection of the retry loop reports an active selection
StillActive == pc = "retry_has_sel" /\ ReturnedNil /\ selected # {}

\* C31: bounded deselect.  After the download step of a processed group
\* Deselect is attempted at least once and at most 3 times; the attempts stop
\* after the first one following which HasActiveSelection detects nothing;
\* and when a selection is still detected after the third attempt the loop
\* is not left: run goes on to scroll past the group.
BoundedDeselect ==
  /\ [](ret = "retry" /\ pc \in DeselectPcs => retry < MaxDeselectRetries)
  /\ [][ /\ (pc = "download" /\ pc' # "after_loop" =>
               pc' = "ds_find" /\ ret' = "retry" /\ retry' = 0)
         /\ (StillActive =>
               /\ retry' = retry + 1
               /\ pc' = IF retry' < MaxDeselectRetries THEN "ds_find" ELSE "ctx_check")
         /\ (pc = "retry_has_sel" /\ ~StillActive =>
               pc' = "ctx_check" /\ retry' = retry)
         /\ (pc = "ctx_check" /\ ~ctxDone /\ pc' # pc => pc' = "advance") ]_vars

\* C31 witness: three attempts left the selection active and run is about to
\* scroll past the group
GaveUpDeselecting ==
  /\ pc = "advance" /\ retry = MaxDeselectRetries /\ selected # {}
  /\ session = "alive" /\ ~ctxDone

\* HasActiveSelection of the pre-check reports an active selection
PendingDetected == pc = "pre_has_sel" /\ ReturnedNil /\ selected # {}

\* C32: selection pre-check.  Every loop iteration, the first included,
\* starts with the check for an active selection, before the scan; a detected
\* selection gets a Deselect attempt; and the scan is entered only from that
\* check when it detected nothing or from the Deselect it started.
SelectionPreCheck ==
  [][ /\ (pc = "loop_top" /\ pc' # pc /\ pc' # "after_loop" => pc' = "pre_has_sel")
      /\ (pc' = "pre_has_sel" /\ pc' # pc => pc = "loop_top")
      /\ (PendingDetected => pc' = "ds_find" /\ ret' = "pre")
      /\ (pc = "pre_has_sel" /\ ~PendingDetected => pc' = "locate")
      /\ (pc' = "locate" /\ pc' # pc =>
            \/ pc = "pre_has_sel" /\ ~PendingDetected
            \/ pc \in DeselectPcs /\ ret = "pre")
      /\ (pc' \in SelectPcs /\ pc \notin SelectPcs => pc' = "locate") ]_vars

\* C32 witness: the pre-check of a later iteration found the selection that
\* the retry loop had left behind and a Deselect is under way
ClearingPendingSelection ==
  /\ pc = "ds_find" /\ ret = "pre" /\ selected # {} /\ session = "alive"
  /\ stats.DatesProcessed >= 1

\* ScrollToPosition returned nil and the page moved by the whole amount asked
ScrolledInFull ==
  /\ pc \in {"advance", "skip_scroll"} /\ ReturnedNil
  /\ scrollY' = scrollY + ScrollToPositionDelta(dateInfo.YPosition)

MatchingInBand ==
  { i \in 1..Len(groups) :
      /\ LocatorMatches(groups[i].label)
      /\ RectTop(groups[i], scrollY) \in BandTop..(InnerHeight - BandBottomMargin - 1) }

LabelGrammarAgreement ==
  \A i \in 1..Len(groups) :
    /\ (InBand(groups[i], scrollY) /\ ~ParseYandexDate(groups[i].label, nowYear).err
          => i \in Candidates(groups, scrollY))
    /\ (i \in Candidates(groups, scrollY)
          => ~ParseYandexDate(groups[i].label, nowYear).err)

\* the label is written "D Month" or "D Month YYYY" and names a day of the
\* calendar: an English month and a day that the month has
DenotesDate(label, year) ==
  /\ label.sep = "sp" /\ label.day \in 0..99
  /\ label.month \in 1..12
  /\ label.day \in 1..DaysIn(IF label.year # 0 THEN label.year ELSE year, label.month)

\* C36: label parsing.  For a label "D Month" or "D Month YYYY"
\* ParseYandexDate returns the date whose day is D, whose month is the named
\* month and whose year is YYYY, or the current year when the label has none;
\* every label that denotes no such date yields a parse failure.
LabelParsing ==
  answer.parse.asked =>
    IF DenotesDate(probe, nowYear)
    THEN /\ ~answer.parse.err
         /\ answer.parse.t =
              Date(IF probe.year # 0 THEN probe.year ELSE nowYear, probe.month, 1)
                + 2 * (probe.day - 1)
    ELSE answer.parse.err

\* C37: the selection component never scrolls.  No step of
\* SelectFirstVisibleDate, HasActiveSelection, Deselect or
\* ClearPendingSelection changes the scroll offset; the offset changes only
\* in the ScrollDown and ScrollToPosition steps of run.
SelectionNeverScrolls ==
  [][ /\ (pc \in SelectPcs \cup DeselectPcs \cup HasSelectionPcs => scrollY' = scrollY)
      /\ (scrollY' # scrollY => pc \in ScrollPcs) ]_vars

\* C37 witness: after one advance in full a second group was selected,
\* downloaded and deselected, with the offset where the advance left it
OffsetKeptWhileSelecting ==
  /\ pc = "retry_has_sel" /\ stats.DatesProcessed = 1 /\ NoFaultSoFar
  /\ scrollY = (FirstTop + GroupHeight \div 2) - ScrollMargin

\* C38: best-effort startup steps.  Whatever ConfigureDownloads returns, run
\* goes on to the login check, and whatever FilterByUnlimitedStorage returns,
\* run enters the traversal loop; neither failure makes run return an error.
\* A failure of the initial Navigate makes run return that error, and the
\* loop is never entered.
BestEffortStartup ==
  /\ [][ /\ (pc = "configure" /\ pc' # pc => pc' = "check_login" /\ runErr' = runErr)
         /\ (pc = "filter" /\ pc' # pc => pc' = "loop_top" /\ runErr' = runErr)
         /\ (pc = "navigate" /\ pc' # pc =>
               IF ReturnedNil THEN pc' = "configure" /\ runErr' = runErr
               ELSE pc' = "returning" /\ runErr' = "navigate") ]_vars
  /\ [](runErr = "navigate" => pc \in {"returning", "exited"})
  /\ [](pc \in LoopPcs => runErr = "none")

\* C38 witness: FilterByUnlimitedStorage failed, with the browser gone, and
\* the loop was entered all the same
LoopEnteredAfterFilterFailure ==
  pc = "loop_top" /\ fatalAt = "filter" /\ runErr = "none"

\* a poll of WaitForLogin whose CheckLoginStatus returned an error
PollFailed == pc = "wait_login" /\ (ReturnedTransient \/ session' # session)

DownloadsCounted == stats.DownloadsStarted + stats.DownloadsFailed

\* C40: counter consistency.  In every state of a run the number of error
\* entries equals DownloadsFailed; DatesProcessed <= DownloadsStarted +
\* DownloadsFailed <= DatesProcessed + 1, with equality on the left at the
\* top of every loop iteration; and no counter ever decreases.
CounterConsistency ==
  /\ [](Len(stats.Errors) = stats.DownloadsFailed)
  /\ [](stats.DatesProcessed <= DownloadsCounted /\ DownloadsCounted <= stats.DatesProcessed + 1)
  /\ [](pc = "loop_top" => stats.DatesProcessed = DownloadsCounted)
  /\ [][ /\ stats'.DatesProcessed >= stats.DatesProcessed
         /\ stats'.DownloadsStarted >= stats.DownloadsStarted
         /\ stats'.DownloadsFailed >= stats.DownloadsFailed
         /\ stats'.SkippedDates >= stats.SkippedDates
         /\ Len(stats'.Errors) >= Len(stats.Errors) ]_vars

\* C40 witness: back at the loop top after one download that started and one
\* that failed, each followed by its advance
CountedBothKinds ==
  /\ pc = "loop_top" /\ stats.DownloadsStarted = 1 /\ stats.DownloadsFailed = 1
  /\ stats.DatesProcessed = 2 /\ Len(stats.Errors) = 1

====
